---- MODULE Spec2Model ----
(***************************************************************************)
(* Model of src/src/combine_pdfs.py: the PDF combiner.                     *)
(*                                                                         *)
(* File names are sequences of one-character strings, so that suffix       *)
(* tests, lower-casing, the temp_ prefix and the lexicographic sort are    *)
(* computed the way the Python code computes them.  A file system maps a   *)
(* path <<directory, name>> to the content of the file.  The content of a  *)
(* PDF is its page sequence plus what each library does with it:           *)
(*   plumb   pdfplumber opens it and rasterises every page                 *)
(*   cv      the OpenCV colour conversion of its page images succeeds      *)
(*   reader  PyPDF2's PdfReader parses it                                  *)
(*   bad     index of the page on which the append loop raises (0: none)   *)
(***************************************************************************)
EXTENDS Integers, Sequences, FiniteSets, TLC

VARIABLES
    same_dir,           \* the source folder is the script directory
    remove_watermarks,  \* argument of combine_pdfs
    watermark_method,   \* argument of combine_pdfs: "crop" or "opencv"
    arg_output,         \* argument output_filename: [given, name]
    fs,                 \* the file system
    fs0,                \* the file system before the run
    pc,                 \* "Idle", "Processing", "Finalizing", "Done", "Aborted"
    pdf_files,          \* the list returned by get_pdf_files (base names)
    idx,                \* position of the for loop in pdf_files
    output_filename,    \* the final output name
    out,                \* pdf_writer.pages of combine_pdfs
    log,                \* one record per loop iteration: what happened to the file
                        \*   ok: the iteration raised nothing; added: pages appended;
                        \*   total: pages of the document PdfReader opened;
                        \*   via: how the file read was produced; cvFailed: the
                        \*   page loop of remove_watermark_opencv raised
    exit_code,          \* -1 while running, then the exit status of main
    img_height,         \* height of a rasterised page image
    percent,            \* bottom_height_percent
    cropped_height,     \* height of the cropped image (-1: not cropped yet)
    strategy            \* which crop produced cropped_height

runVars == <<same_dir, remove_watermarks, watermark_method, arg_output, fs, fs0,
             pc, pdf_files, idx, output_filename, out, log, exit_code>>
cropVars == <<img_height, percent, cropped_height, strategy>>
vars == <<same_dir, remove_watermarks, watermark_method, arg_output, fs, fs0,
          pc, pdf_files, idx, output_filename, out, log, exit_code,
          img_height, percent, cropped_height, strategy>>

\* ------------------------------------------------------------------ bounds

MaxPages == 2

MaxHeight == 50

\* ------------------------------------------------------------ characters

\* The characters used, in code point order (Python compares str by code point).
CodeOrder ==
    <<".", "0", "1", "2", "3", "4", "5", "6", "7", "8", "9",
      "A", "B", "C", "D", "E", "F", "G", "H", "I", "J", "K", "L", "M",
      "N", "O", "P", "Q", "R", "S", "T", "U", "V", "W", "X", "Y", "Z", "_",
      "a", "b", "c", "d", "e", "f", "g", "h", "i", "j", "k", "l", "m",
      "n", "o", "p", "q", "r", "s", "t", "u", "v", "w", "x", "y", "z">>

Ord(c) == CHOOSE k \in 1..Len(CodeOrder) : CodeOrder[k] = c

Uppers ==
    <<"A", "B", "C", "D", "E", "F", "G", "H", "I", "J", "K", "L", "M",
      "N", "O", "P", "Q", "R", "S", "T", "U", "V", "W", "X", "Y", "Z">>

Lowers ==
    <<"a", "b", "c", "d", "e", "f", "g", "h", "i", "j", "k", "l", "m",
      "n", "o", "p", "q", "r", "s", "t", "u", "v", "w", "x", "y", "z">>

\* str.lower() on one character
LowerChar(c) ==
    IF \E k \in 1..Len(Uppers) : Uppers[k] = c
    THEN Lowers[CHOOSE k \in 1..Len(Uppers) : Uppers[k] = c]
    ELSE c

\* str.lower()
Lower(s) == [k \in 1..Len(s) |-> LowerChar(s[k])]

\* str.endswith(suffix)
EndsWith(s, suffix) ==
    /\ Len(s) >= Len(suffix)
    /\ SubSeq(s, Len(s) - Len(suffix) + 1, Len(s)) = suffix

DotPdf == <<".", "p", "d", "f">>

TempPrefix == <<"t", "e", "m", "p", "_">>

\* a < b for Python strings
StrLess(a, b) ==
    \E k \in 1..(Len(a) + 1) :
        /\ \A j \in 1..(k - 1) : j <= Len(b) /\ a[j] = b[j]
        /\ \/ k = Len(a) + 1 /\ Len(b) >= k
           \/ k <= Len(a) /\ k <= Len(b) /\ Ord(a[k]) < Ord(b[k])

\* ------------------------------------------------------------ file system

Exists(f, p) == p \in DOMAIN f

\* open(p, 'wb') followed by a complete write, or shutil.copy2
Put(f, p, c) == [q \in (DOMAIN f) \cup {p} |-> IF q = p THEN c ELSE f[q]]

\* os.remove
Del(f, p) == [q \in (DOMAIN f) \ {p} |-> f[q]]

SrcDir == IF same_dir THEN "script" ELSE "source"

SrcPath(name) == <<SrcDir, name>>

\* os.path.join(script_dir, f"temp_{os.path.basename(pdf_file)}")
TempName(name) == TempPrefix \o name

TempPath(name) == <<"script", TempName(name)>>

\* os.path.join(script_dir, output_filename)
OutputPath(name) == <<"script", name>>

\* A PDF as PdfWriter.write produces it: well formed for every library.
Doc(pages) == [pages |-> pages, plumb |-> TRUE, cv |-> TRUE, reader |-> TRUE, bad |-> 0]

\* What a partial write leaves behind: not a PDF.
Garbage == [pages |-> <<>>, plumb |-> FALSE, cv |-> FALSE, reader |-> FALSE, bad |-> 0]

\* ------------------------------------------------------------ get_pdf_files

\* glob's "*.pdf": the name ends in .pdf and is not hidden
Match(name) == EndsWith(name, DotPdf) /\ name[1] # "."

\* the set of names glob.glob(os.path.join(source_folder, "*.pdf")) returns
Glob(f, dir) == {p[2] : p \in {q \in DOMAIN f : q[1] = dir /\ Match(q[2])}}

\* the orders in which glob may list a set of names
Listings(S) ==
    {s \in [1..Cardinality(S) -> S] : \A x \in S : \E k \in 1..Cardinality(S) : s[k] = x}

RECURSIVE Insert(_, _)
Insert(x, s) ==
    IF s = <<>> THEN <<x>>
    ELSE IF StrLess(Head(s), x) THEN <<Head(s)>> \o Insert(x, Tail(s))
    ELSE <<x>> \o s

RECURSIVE InsertionSort(_)
InsertionSort(s) == IF s = <<>> THEN <<>> ELSE Insert(Head(s), InsertionSort(Tail(s)))

\* sorted(pdf_files): the paths share the folder prefix, so the names decide
SortedFiles(listing) == InsertionSort(listing)

\* ------------------------------------------------------------ output naming

CombinedPrefix ==
    <<"c", "o", "m", "b", "i", "n", "e", "d", "_", "p", "d", "f", "s", "_">>

\* results of datetime.now().strftime("%Y%m%d_%H%M%S")
Timestamps ==
    { <<"2", "0", "2", "4", "0", "1", "3", "1", "_", "0", "9", "0", "5", "5", "9">>,
      <<"1", "9", "9", "9", "1", "2", "3", "1", "_", "2", "3", "5", "9", "5", "9">> }

\* f"combined_pdfs_{timestamp}.pdf"
DefaultName(ts) == CombinedPrefix \o ts \o DotPdf

\* the suffix test without lower(): case-sensitive
EnsurePdfExtCaseSensitive(name) ==
    IF ~EndsWith(name, DotPdf) THEN name \o DotPdf ELSE name

\* if not output_filename.lower().endswith('.pdf'): output_filename += '.pdf'
EnsurePdfExt(name) ==
    IF ~EndsWith(Lower(name), DotPdf) THEN name \o DotPdf ELSE name

\* the final output name for an argument and a clock reading
FinalName(arg, ts) ==
    EnsurePdfExt(IF arg.given THEN arg.name ELSE DefaultName(ts))

\* ------------------------------------------------------------ the crops

\* 2^n
RECURSIVE Pow2(_)
Pow2(n) == IF n = 0 THEN 1 ELSE 2 * Pow2(n - 1)

\* 2^n modulo 100
RECURSIVE Pow2Mod100(_)
Pow2Mod100(n) == IF n = 0 THEN 1 ELSE (2 * Pow2Mod100(n - 1)) % 100

\* floor(log2(n)) for n >= 1
RECURSIVE Log2Floor(_)
Log2Floor(n) == IF n < 2 THEN 0 ELSE 1 + Log2Floor(n \div 2)

\* the k with 2^-k <= p/100 < 2^(1-k), for 1 <= p <= 99: the double nearest to
\* p/100 is m / 2^(52+k) with a 53 bit integer m
RECURSIVE BinaryExponent(_)
BinaryExponent(p) == IF p >= 100 THEN 0 ELSE 1 + BinaryExponent(2 * p)

\* p * 2^(52+k) - 100 * m: by how much (in units of 1/(100 * 2^(52+k))) the
\* double p/100 falls short of the fraction p/100; negative when it exceeds it
Shortfall(p) ==
    LET rem == (p * Pow2Mod100(52 + BinaryExponent(p))) % 100
    IN  IF rem < 50 THEN rem ELSE rem - 100

\* int(h * (p / 100)) in IEEE double arithmetic, for 1 <= p <= 99: p / 100 is
\* rounded to a double, the product is rounded to a double, int() truncates.
\* The result is floor(h*p/100), except that when h*p/100 is a whole number q
\* and the rounded product falls below q it is q - 1 (29% of 100 gives 28).
\* The product falls below q when the shortfall of h times the double exceeds
\* half the gap between q and the double before it.
TruncatedProduct(h, p) ==
    LET q == (h * p) \div 100
        e == Log2Floor(q)
        gap == IF Pow2(e) = q THEN 1 ELSE 2
    IN  IF (h * p) % 100 # 0 \/ q = 0 THEN q
        ELSE IF 2 * h * Shortfall(p) > gap * 100 * Pow2(e + BinaryExponent(p) - 1)
        THEN q - 1
        ELSE q

\* crop_bottom = int(img_height * (bottom_height_percent / 100))
CropBottom(h, p) == TruncatedProduct(h, p)

\* pil_img.crop((0, 0, img_width, img_height - crop_bottom)): the height kept
RegionCropHeight(h, p) == h - CropBottom(h, p)

\* crop_height = int(height * 0.85); opencv_img[0:crop_height, 0:width]
OpenCVCropHeight(h) == TruncatedProduct(h, 85)

\* ------------------------------------------------------------ watermark removal

\* the page images of one strategy, re-encoded: one page per source page
Cropped(pages, form) == [k \in 1..Len(pages) |-> [pages[k] EXCEPT !.form = form]]

\* the loop of remove_watermark_region over pdf.pages
RegionPages(pages) == Cropped(pages, "region")

\* the loop of remove_watermark_opencv over pdf.pages
OpenCVPages(pages) == Cropped(pages, "opencv")

\* What the operating system does with one attempt to write a file:
\*   "ok"       the file is written in full
\*   "refused"  the open fails, nothing is created or changed
\*   "partial"  the open succeeds and truncates, the write breaks off
WriteOutcomes == {"ok", "refused", "partial"}

\* shutil.copy2 is copyfile, then copystat: as a write, or the data is copied
\* in full and copystat raises
CopyOutcomes == WriteOutcomes \cup {"nostat"}

\* What the operating system does during one iteration of the file loop: the
\* write of remove_watermark_opencv, the write of remove_watermark_region,
\* shutil.copy2, whether PdfReader(processed_file) can open its file for
\* reading, and whether os.remove succeeds.
Envs ==
    [cvw : WriteOutcomes, regw : WriteOutcomes, cpw : CopyOutcomes,
     rd : BOOLEAN, rm : BOOLEAN]

\* with open(dst, 'wb') as output_file: pdf_writer.write(output_file)
WriteFile(f, dst, doc, w) ==
    IF w = "ok" THEN [ok |-> TRUE, fs |-> Put(f, dst, doc)]
    ELSE IF w = "partial" THEN [ok |-> FALSE, fs |-> Put(f, dst, Garbage)]
    ELSE [ok |-> FALSE, fs |-> f]

\* the except block of remove_watermark_region: shutil.copy2(src, dst)
CopyOriginal(f, src, dst, e) ==
    IF ~Exists(f, src) THEN [ok |-> FALSE, fs |-> f, via |-> "none"]
    ELSE IF e.cpw = "nostat"
    THEN [ok |-> FALSE, fs |-> Put(f, dst, f[src]), via |-> "none"]
    ELSE LET c == WriteFile(f, dst, f[src], e.cpw)
         IN  [ok |-> c.ok, fs |-> c.fs, via |-> IF c.ok THEN "copy" ELSE "none"]

\* remove_watermark_region(src, dst): the try block (pdfplumber, the page
\* loop, the write), then the except block's copy of the original
RemoveWatermarkRegion(f, src, dst, e) ==
    IF Exists(f, src) /\ f[src].plumb
    THEN LET w == WriteFile(f, dst, Doc(RegionPages(f[src].pages)), e.regw)
         IN  IF w.ok THEN [ok |-> TRUE, fs |-> w.fs, via |-> "region"]
             ELSE CopyOriginal(w.fs, src, dst, e)
    ELSE CopyOriginal(f, src, dst, e)

\* remove_watermark_opencv(src, dst): the try block (pdfplumber, the page
\* loop, the write), then the fallback call in the except block
RemoveWatermarkOpenCV(f, src, dst, e) ==
    IF Exists(f, src) /\ f[src].plumb /\ f[src].cv
    THEN LET w == WriteFile(f, dst, Doc(OpenCVPages(f[src].pages)), e.cvw)
         IN  IF w.ok THEN [ok |-> TRUE, fs |-> w.fs, via |-> "opencv"]
             ELSE RemoveWatermarkRegion(w.fs, src, dst, e)
    ELSE RemoveWatermarkRegion(f, src, dst, e)

\* ------------------------------------------------------------ combine_pdfs

\* pages the loop "for page_num in range(len(pdf_reader.pages))" appends before
\* it ends or raises
Appended(doc) ==
    IF doc.bad = 0 THEN doc.pages ELSE SubSeq(doc.pages, 1, doc.bad - 1)

\* One iteration of the for loop over pdf_files, for the file `name`, under
\* the operating system behaviour e: the new file system, the pages appended,
\* and what happened.  PdfReader(processed_file) raises when the file cannot
\* be opened for reading or is no PDF; the removal of the temporary file comes
\* after it, and a failing os.remove is swallowed ("except: pass").
ProcessOne(f, name, e) ==
    LET src == SrcPath(name)
        tmp == TempPath(name)
    IN  IF remove_watermarks
        THEN LET r == IF watermark_method = "opencv"
                      THEN RemoveWatermarkOpenCV(f, src, tmp, e)
                      ELSE RemoveWatermarkRegion(f, src, tmp, e)
                 \* the page loop of remove_watermark_opencv raised
                 cvFailed == /\ watermark_method = "opencv"
                             /\ Exists(f, src)
                             /\ ~(f[src].plumb /\ f[src].cv)
             IN  IF ~r.ok
                 THEN [fs |-> r.fs, pages |-> <<>>, ok |-> FALSE,
                       via |-> r.via, cvFailed |-> cvFailed, total |-> 0]
                 ELSE IF ~e.rd \/ ~r.fs[tmp].reader
                 THEN [fs |-> r.fs, pages |-> <<>>, ok |-> FALSE,
                       via |-> r.via, cvFailed |-> cvFailed, total |-> 0]
                 ELSE [fs |-> IF e.rm THEN Del(r.fs, tmp) ELSE r.fs,
                       pages |-> Appended(r.fs[tmp]),
                       ok |-> r.fs[tmp].bad = 0,
                       via |-> r.via, cvFailed |-> cvFailed,
                       total |-> Len(r.fs[tmp].pages)]
        ELSE IF Exists(f, src) /\ e.rd /\ f[src].reader
             THEN [fs |-> f, pages |-> Appended(f[src]), ok |-> f[src].bad = 0,
                   via |-> "direct", cvFailed |-> FALSE,
                   total |-> Len(f[src].pages)]
             ELSE [fs |-> f, pages |-> <<>>, ok |-> FALSE,
                   via |-> "direct", cvFailed |-> FALSE, total |-> 0]

\* the check is skipped
NoInputIgnored(files) == FALSE

\* "if not pdf_files"
NoInput(files) == files = <<>>

\* the exception of a file ends the run
AfterFilePropagate(ok, k, n) ==
    IF ~ok THEN "Aborted" ELSE IF k = n THEN "Finalizing" ELSE "Processing"

\* "except Exception: ... continue", and the end of the for loop
AfterFile(ok, k, n) == IF k = n THEN "Finalizing" ELSE "Processing"

\* main: sys.exit(1) in its except block, 0 when combine_pdfs returns
ExitOf(state) == IF state = "Aborted" THEN 1 ELSE IF state = "Done" THEN 0 ELSE -1

\* ------------------------------------------------------------ initial states

A_pdf == <<"a", ".", "p", "d", "f">>

B_pdf == <<"b", ".", "p", "d", "f">>

Temp_a_pdf == <<"t", "e", "m", "p", "_", "a", ".", "p", "d", "f">>

N_txt == <<"n", ".", "t", "x", "t">>

\* candidate PDF names of the source folder; n.txt is always there
PdfNames == {A_pdf, B_pdf, Temp_a_pdf}

\* what a.pdf and b.pdf may be: absent, or a file of one of six kinds
\*   good       every library handles it
\*   badpage    its last page makes pdf_writer.add_page raise
\*   nocv       the OpenCV conversion of its page images raises
\*   noraster   pdfplumber cannot rasterise it, PdfReader reads it
\*   badraster  noraster, and its last page makes add_page raise
\*   corrupt    no library reads it
FileChoices ==
    {[kind |-> "absent", n |-> 0], [kind |-> "corrupt", n |-> 0]}
        \cup [kind : {"good"}, n : {1, MaxPages}]
        \cup [kind : {"badpage", "nocv", "noraster", "badraster"}, n : {MaxPages}]

\* what temp_a.pdf may be
TempChoices ==
    {[kind |-> "absent", n |-> 0], [kind |-> "good", n |-> MaxPages]}

ChoicesOf(name) == IF name = Temp_a_pdf THEN TempChoices ELSE FileChoices

OrigPages(name, n) == [k \in 1..n |-> [src |-> name, idx |-> k, form |-> "orig"]]

Content(name, c) ==
    [pages  |-> OrigPages(name, c.n),
     plumb  |-> c.kind \in {"good", "badpage", "nocv"},
     cv     |-> c.kind \in {"good", "badpage"},
     reader |-> c.kind # "corrupt",
     bad    |-> IF c.kind \in {"badpage", "badraster"} THEN c.n ELSE 0]

InitialFs(dir, choice) ==
    [p \in {<<dir, name>> : name \in {x \in PdfNames : choice[x].kind # "absent"}}
             \cup {<<dir, N_txt>>}
       |-> IF p[2] = N_txt THEN Garbage ELSE Content(p[2], choice[p[2]])]

\* (remove_watermarks, watermark_method)
Modes == {<<FALSE, "crop">>, <<TRUE, "crop">>, <<TRUE, "opencv">>}

NoArg == [given |-> FALSE, name |-> <<>>]

OutputArgs ==
    {NoArg,
     [given |-> TRUE, name |-> <<"o">>],
     [given |-> TRUE, name |-> A_pdf],
     [given |-> TRUE, name |-> <<"o", ".", "P", "D", "F">>]}

\* The naming at lines 187-194 does not read remove_watermarks: the runs with
\* watermark removal take the two supplied names that differ in what the final
\* write may overwrite, the runs without it take every case of the naming.
OutputArgsOf(rw) ==
    IF rw THEN {a \in OutputArgs : a.given /\ a.name \in {<<"o">>, A_pdf}}
    ELSE OutputArgs

DefaultPercent == 15

CropIdle ==
    /\ img_height = 0
    /\ percent = DefaultPercent
    /\ cropped_height = -1
    /\ strategy = "none"

Init ==
    /\ same_dir \in BOOLEAN
    /\ \E m \in Modes : remove_watermarks = m[1] /\ watermark_method = m[2]
    /\ arg_output \in OutputArgsOf(remove_watermarks)
    /\ \E choice \in {c \in [PdfNames -> FileChoices \cup TempChoices] :
                          \A x \in PdfNames : c[x] \in ChoicesOf(x)} :
          fs0 = InitialFs(IF same_dir THEN "script" ELSE "source", choice)
    /\ fs = fs0
    /\ pc = "Idle"
    /\ pdf_files = <<>>
    /\ idx = 0
    /\ output_filename = <<>>
    /\ out = <<>>
    /\ log = <<>>
    /\ exit_code = -1
    /\ CropIdle

\* ------------------------------------------------------------ actions

\* combine_pdfs up to the for loop: get_pdf_files, the empty check, the naming
Collect ==
    /\ pc = "Idle"
    /\ \E listing \in Listings(Glob(fs, SrcDir)), ts \in Timestamps :
          LET files == SortedFiles(listing)
          IN  /\ pdf_files' = files
              /\ IF NoInput(files)
                 THEN /\ pc' = "Aborted"
                      /\ output_filename' = output_filename
                 ELSE /\ pc' = AfterFile(TRUE, 0, Len(files))
                      /\ output_filename' = FinalName(arg_output, ts)
    /\ idx' = 1
    /\ exit_code' = ExitOf(pc')
    /\ UNCHANGED <<same_dir, remove_watermarks, watermark_method, arg_output,
                   fs, fs0, out, log>>
    /\ UNCHANGED cropVars

\* one iteration of "for pdf_file in pdf_files", its try and its except
ProcessFile ==
    /\ pc = "Processing"
    /\ idx <= Len(pdf_files)
    /\ \E r \in {ProcessOne(fs, pdf_files[idx], e) : e \in Envs} :
              /\ fs' = r.fs
              /\ out' = out \o r.pages
              /\ log' = Append(log, [name |-> pdf_files[idx], ok |-> r.ok,
                                     via |-> r.via,
                                     cvFailed |-> r.cvFailed,
                                     added |-> Len(r.pages), total |-> r.total])
              /\ pc' = AfterFile(r.ok, idx, Len(pdf_files))
    /\ idx' = idx + 1
    /\ exit_code' = ExitOf(pc')
    /\ UNCHANGED <<same_dir, remove_watermarks, watermark_method, arg_output,
                   fs0, pdf_files, output_filename>>
    /\ UNCHANGED cropVars

\* the final write: it succeeds, the open fails, or the write breaks off
WriteOutput ==
    /\ pc = "Finalizing"
    /\ \/ /\ fs' = Put(fs, OutputPath(output_filename), Doc(out))
          /\ pc' = "Done"
       \/ /\ fs' = fs
          /\ pc' = "Aborted"
       \/ /\ fs' = Put(fs, OutputPath(output_filename), Garbage)
          /\ pc' = "Aborted"
    /\ exit_code' = ExitOf(pc')
    /\ UNCHANGED <<same_dir, remove_watermarks, watermark_method, arg_output,
                   fs0, pdf_files, idx, output_filename, out, log>>
    /\ UNCHANGED cropVars

Next == Collect \/ ProcessFile \/ WriteOutput

Spec == Init /\ [][Next]_vars

\* ------------------------------------------------------------ the crops alone

Percents == {1, 15, 58, 99}

InitCrop ==
    /\ same_dir = FALSE
    /\ remove_watermarks = TRUE
    /\ watermark_method = "crop"
    /\ arg_output = NoArg
    /\ fs0 = InitialFs("source", [x \in PdfNames |-> [kind |-> "absent", n |-> 0]])
    /\ fs = fs0
    /\ pc = "Crop"
    /\ pdf_files = <<>>
    /\ idx = 0
    /\ output_filename = <<>>
    /\ out = <<>>
    /\ log = <<>>
    /\ exit_code = -1
    /\ img_height \in 1..MaxHeight
    /\ percent \in Percents
    /\ cropped_height = -1
    /\ strategy = "none"

\* the crop of remove_watermark_region on one page image
CropRegion ==
    /\ pc = "Crop"
    /\ strategy = "none"
    /\ cropped_height' = RegionCropHeight(img_height, percent)
    /\ strategy' = "region"
    /\ UNCHANGED <<img_height, percent>>
    /\ UNCHANGED runVars

\* the crop of remove_watermark_opencv on one page image
CropOpenCV ==
    /\ pc = "Crop"
    /\ strategy = "none"
    /\ cropped_height' = OpenCVCropHeight(img_height)
    /\ strategy' = "opencv"
    /\ UNCHANGED <<img_height, percent>>
    /\ UNCHANGED runVars

NextCrop == CropRegion \/ CropOpenCV

SpecCrop == InitCrop /\ [][NextCrop]_vars

\* ------------------------------------------------------------ properties

\* the .pdf files of the source folder before the run
Matched0 == Glob(fs0, SrcDir)

\* the pages a source file held before the run
Pages0(name) == fs0[SrcPath(name)].pages

Finished == pc \in {"Done", "Aborted"}

\* a name carries a .pdf suffix, in any case
HasPdfSuffix(s) ==
    /\ Len(s) >= 4
    /\ LowerChar(s[Len(s) - 3]) = "."
    /\ LowerChar(s[Len(s) - 2]) = "p"
    /\ LowerChar(s[Len(s) - 1]) = "d"
    /\ LowerChar(s[Len(s)]) = "f"

\* every page of the file `name` is in the output, in one of the forms
AllPagesIn(name, forms) ==
    \A j \in 1..Len(Pages0(name)) :
        \E m \in 1..Len(out) :
            out[m].src = name /\ out[m].idx = j /\ out[m].form \in forms

RECURSIVE SumTotals(_)
SumTotals(l) ==
    IF l = <<>> THEN 0
    ELSE (IF Head(l).ok THEN Head(l).total ELSE 0) + SumTotals(Tail(l))

\* C1 (P1, ordering): once the files are collected, pdf_files lists exactly the
\* .pdf files of the source folder in strictly ascending name order; the pages
\* accumulated in the output keep that order (a page of a later file never
\* precedes a page of an earlier file, and the pages of one file keep their
\* original order); and every file processed without error has all its pages
\* there, so that the output is the concatenation of the files' pages in
\* filename-sorted order.
C1_OrderingClaim ==
    pc # "Idle" =>
        /\ {pdf_files[k] : k \in 1..Len(pdf_files)} = Matched0
        /\ \A k, l \in 1..Len(pdf_files) : k < l => StrLess(pdf_files[k], pdf_files[l])
        /\ \A k \in 1..Len(log) : log[k].name = pdf_files[k]
        /\ \A m \in 1..Len(out) : out[m].src \in Matched0
        /\ \A m, q \in 1..Len(out) :
              m < q => \/ StrLess(out[m].src, out[q].src)
                       \/ out[m].src = out[q].src /\ out[m].idx < out[q].idx
        /\ \A k \in 1..Len(log) :
              log[k].ok => /\ log[k].added = Len(Pages0(log[k].name))
                           /\ AllPagesIn(log[k].name, {"orig", "region", "opencv"})

\* C2 (P2, page count): when combine_pdfs finishes, the number of pages in the
\* output equals the sum of the page counts of the files that were opened and
\* processed without error; a file that raised contributes 0.
C2_PageCountClaim ==
    Finished /\ pdf_files # <<>> => Len(out) = SumTotals(log)

\* C3 (failure isolation): Aborted is entered only from Idle with no input
\* files or from Finalizing; a step of the file loop, whether the file fails
\* or not, moves on to the next file and to Finalizing after the last one
\* without setting an exit status; the exit status is 1 only in Aborted and 0
\* once the output is written.
C3_FailureIsolation ==
    [][ /\ (pc' = "Aborted" /\ pc # "Aborted") =>
              \/ pc = "Idle" /\ Matched0 = {}
              \/ pc = "Finalizing"
        /\ pc = "Processing" =>
              /\ idx' = idx + 1
              /\ pc' = (IF idx = Len(pdf_files) THEN "Finalizing" ELSE "Processing")
              /\ exit_code' = -1
        /\ exit_code' = 1 => pc' = "Aborted"
        /\ (pc = "Finalizing" /\ pc' = "Done") => exit_code' = 0
      ]_vars

\* a run that ended with status 0 although one of its files failed in the
\* temp-file handling: its temporary file was written in full and is a sound
\* PDF, PdfReader could not open it, and it is still on disk
C3_Witness ==
    /\ pc = "Done"
    /\ exit_code = 0
    /\ \E k \in 1..Len(log) :
          LET t == TempPath(log[k].name)
          IN  /\ ~log[k].ok
              /\ log[k].via \in {"region", "opencv"}
              /\ log[k].added = 0
              /\ t \in DOMAIN fs
              /\ fs[t].reader /\ fs[t].bad = 0 /\ fs[t].pages # <<>>
    /\ \E k \in 1..Len(log) : log[k].ok

\* C4 (empty input): with no .pdf file in the source folder the run is
\* aborted with exit status 1 as soon as it leaves Idle: no file is processed
\* and the file system is what it was (no output file, no temporary file).
C4_EmptyInput ==
    (Matched0 = {} /\ pc # "Idle") =>
        /\ pc = "Aborted"
        /\ exit_code = 1
        /\ fs = fs0
        /\ log = <<>>
        /\ out = <<>>

\* an aborted run on a folder holding only n.txt, watermark removal on
C4_Witness ==
    /\ pc = "Aborted"
    /\ Matched0 = {}
    /\ remove_watermarks
    /\ DOMAIN fs = {<<SrcDir, N_txt>>}

\* C5 (P5, fallback) as claimed: whenever remove_watermark_opencv raised on a
\* page of a file, every page of that file is in the output, cropped by the fixed
\* fraction fallback or unmodified.
C5_FallbackClaim ==
    \A k \in 1..Len(log) :
        log[k].cvFailed => AllPagesIn(log[k].name, {"region", "orig"})

\* C6 (P3, crop invariant): both strategies keep h' = h - floor(h*f) rows
\* (f = 0.15 in the pixel-domain strategy), and 0 < h' <= h.
C6_CropInvariantClaim ==
    strategy # "none" =>
        LET f == IF strategy = "opencv" THEN DefaultPercent ELSE percent
        IN  /\ cropped_height = img_height - ((img_height * f) \div 100)
            /\ 0 < cropped_height
            /\ cropped_height <= img_height

\* C7 (source files untouched): every file of the source folder is still
\* there with the content it had before the run.
C7_SourcesUntouchedClaim ==
    \A p \in DOMAIN fs0 : p \in DOMAIN fs /\ fs[p] = fs0[p]

\* C8 (P4, idempotent naming): once the output name is fixed it carries a .pdf
\* suffix; a supplied name without the suffix (in any case) got exactly ".pdf"
\* appended, a supplied name with it is unchanged, a generated name is
\* combined_pdfs_<timestamp>.pdf as generated; and the rule applied to the
\* final name changes nothing.
C8_Naming ==
    (pc # "Idle" /\ pdf_files # <<>>) =>
        /\ HasPdfSuffix(output_filename)
        /\ (arg_output.given /\ ~HasPdfSuffix(arg_output.name)) =>
               output_filename = arg_output.name \o DotPdf
        /\ (arg_output.given /\ HasPdfSuffix(arg_output.name)) =>
               output_filename = arg_output.name
        /\ ~arg_output.given =>
               \E ts \in Timestamps : output_filename = CombinedPrefix \o ts \o DotPdf
        /\ EnsurePdfExt(output_filename) = output_filename

\* a run given o.PDF wrote its output under that very name
C8_Witness ==
    /\ pc = "Done"
    /\ arg_output.given
    /\ arg_output.name = <<"o", ".", "P", "D", "F">>
    /\ output_filename = arg_output.name
    /\ OutputPath(output_filename) \in DOMAIN fs

\* C9 (temporary-file cleanup): when combine_pdfs has returned or raised, no
\* temporary file temp_<basename> that the run wrote is on disk.
C9_TempCleanupClaim ==
    Finished =>
        \A k \in 1..Len(pdf_files) :
            LET t == TempPath(pdf_files[k])
            IN  t \in DOMAIN fs => (t \in DOMAIN fs0 /\ fs[t] = fs0[t])

\* C10 (per-file all-or-nothing): a file whose processing raised contributes
\* no page to the output.
C10_AllOrNothingClaim ==
    \A k \in 1..Len(log) :
        ~log[k].ok => /\ log[k].added = 0
                      /\ \A m \in 1..Len(out) : out[m].src # log[k].name

====
